---------------------------- MODULE Spec2Model ----------------------------
(***************************************************************************)
(* Model of the Group 2 output classification router                       *)
(* (Basic framework_updated/p1/group2_router.py) and of the facility       *)
(* validator (Basic framework_updated/integrated/anti_hallucination.py).   *)
(*                                                                         *)
(* Representation.                                                         *)
(*  - A Python str is a sequence of chunks.  A chunk is either one         *)
(*    whitespace character (" ", "\t", "\n") or a run of text that neither *)
(*    starts nor ends with whitespace ("Crisis counseling").  '' is <<>>.  *)
(*    Concatenation (f-strings, +=) is \o.                                 *)
(*  - A confidence is None or an integer number of thousandths, so 0.30 is *)
(*    300 and 0.50 is 500.                                                 *)
(*  - A dict is a function whose DOMAIN is its set of keys.                *)
(*  - None is a value of the type it stands in for: -1 for a confidence,   *)
(*    "None" for a care level.                                             *)
(*  - Emoji of the message literals are left out of the chunks.            *)
(*  - A list is a sequence.  The validator changes the dicts of the list   *)
(*    it is given in place, so the caller's list is part of the state.     *)
(*  - Scores (0-10) are integers in tenths, similarities (0-1) in          *)
(*    hundredths, a completeness (0-1) in thirtieths (thirds weighted by   *)
(*    0.8 and 0.2, and the threshold 0.5, are then whole numbers), a       *)
(*    confidence weight in tenths, a reliability score in points (0-100):  *)
(*    the arithmetic is that of the reals, not of floats.                  *)
(***************************************************************************)
EXTENDS Integers, Sequences, FiniteSets, TLC

VARIABLES
    group2_output,  \* the dict handed to the router by Group 2
    pc,             \* "ready" before the call, "done" after it returned
    call,           \* the function that was called ("none" before the call)
    is_ours,        \* first component of handle_group2_input's return value
    decision,       \* the routing decision returned (the empty dict before)
    facilities,     \* the caller's list of facility dicts
    prev,           \* that list as it was before the last validator call
    vcall,          \* the validator function called last ("none" before)
    returned        \* the list the last validator call returned

router_vars == <<group2_output, pc, call, is_ours, decision>>

validator_vars == <<facilities, prev, vcall, returned>>

vars == <<router_vars, validator_vars>>

\* Python's None where a confidence is expected: no number of thousandths.
None == -1

\* Python's None as the care_level of a category in no urgency tier.
NoCareLevel == "None"

\* Longest run of whitespace put before and after a category in the inputs.
MaxPad == 1

-----------------------------------------------------------------------------
(* Care level definitions *)

URGENT_CATEGORIES ==
    { <<c>> : c \in { "Crisis counseling", "Crisis line", "Crisis services",
                      "IPV support services", "Trauma counseling" } }

MODERATE_CATEGORIES ==
    { <<c>> : c \in { "Mental health", "Mental health support", "Counseling",
                      "Counseling support", "Psychiatrist", "Grief counseling",
                      "Group therapy", "Emotional regulation group",
                      "Skills group", "LGBTQ+ counseling", "Cultural counseling",
                      "Cultural adjustment counseling",
                      "Accessibility counseling", "Wellness support", "Health",
                      "Virtual counseling",
                      "Directory of free mental health providers",
                      "Specialist", "Parenting support", "Case management" } }

\* Mutant: a moderate category listed as low priority as well.
LowPriorityWithWellness ==
    { <<c>> : c \in { "Self-care", "Self-help", "Wellness support" } }

LOW_PRIORITY_CATEGORIES ==
    { <<c>> : c \in { "Self-care", "Self-help" } }

(* Branch mapping definitions *)

GROUP3_CATEGORIES ==
    { <<c>> : c \in { "Mental health", "Mental health support", "Counseling",
                      "Counseling support", "Psychiatrist", "Crisis counseling",
                      "Crisis line", "Crisis services", "Trauma counseling",
                      "Grief counseling", "Group therapy",
                      "Emotional regulation group", "Skills group",
                      "LGBTQ+ counseling", "Cultural counseling",
                      "Cultural adjustment counseling",
                      "Accessibility counseling", "Self-care", "Self-help",
                      "Wellness support", "Health", "Virtual counseling",
                      "Directory of free mental health providers",
                      "Specialist", "Parenting support", "Case management" } }

GROUP4_CATEGORIES ==
    { <<c>> : c \in { "Support group", "Peer support",
                      "Peer support organizations", "Peer group", "Peer mentor",
                      "LGBTQ+ resource" } }

OTHER_CATEGORIES ==
    { <<c>> : c \in { "Academic advising", "Academic coaching", "Advising",
                      "Advisor", "Career counseling", "Career services",
                      "Campus health", "Campus wellness", "Campus case worker",
                      "Student services", "Disability services",
                      "Disability support office", "Financial aid",
                      "Cultural center", "Multicultural center",
                      "International student office", "Ethics office",
                      "STEM mentoring", "Mentoring", "Online safety resources",
                      "Mediation", "IPV support services",
                      "Military student support", "Case manager" } }

-----------------------------------------------------------------------------
(* Built-ins of the language the router uses *)

\* str.isspace() of one chunk.
IsSpace(ch) == ch \in {" ", "\t", "\n"}

RECURSIVE LStrip(_)
LStrip(s) == IF s /= <<>> /\ IsSpace(Head(s)) THEN LStrip(Tail(s)) ELSE s

RECURSIVE RStrip(_)
RStrip(s) ==
    IF s /= <<>> /\ IsSpace(s[Len(s)]) THEN RStrip(SubSeq(s, 1, Len(s) - 1))
    ELSE s

\* Mutant: only the leading whitespace is removed.
StripLeftOnly(s) == LStrip(s)

\* str.strip(): both ends, the inside untouched.
Strip(s) == RStrip(LStrip(s))

\* str.lower() of one chunk: spelled out for the categories the stop rule
\* lowers and for the placeholder texts of a facility field, named by its
\* argument for any other chunk.
LowerChunk(ch) ==
    CASE ch = "Self-care" -> "self-care"
      [] ch = "Self-help" -> "self-help"
      [] ch \in {"nan", "NaN"} -> "nan"
      [] ch \in {"address not available", "Address not available"}
            -> "address not available"
      [] ch \in {"phone not available", "Phone not available"}
            -> "phone not available"
      [] IsSpace(ch) -> ch
      [] OTHER -> "lower(" \o ch \o ")"

Lower(s) == [i \in DOMAIN s |-> LowerChunk(s[i])]

\* dict.get(key, default).
Get(d, key, default) == IF key \in DOMAIN d THEN d[key] ELSE default

\* Truth value of a confidence: None and 0.0 are both false.
Truthy(confidence) == confidence /= None /\ confidence /= 0

\* f"{confidence:.2%}": the percentage with two decimals.
FormatPercent(confidence) ==
    << ToString(confidence \div 10), ".", ToString(confidence % 10), "0%" >>

\* d[key] = value on a dict: the key is added or overwritten.
Put(d, key, value) ==
    [k \in DOMAIN d \cup {key} |-> IF k = key THEN value ELSE d[k]]

-----------------------------------------------------------------------------
(* Routing functions *)

route_category(category0, confidence) ==
    LET category == Strip(category0) IN
    IF category \in GROUP3_CATEGORIES THEN
        [ branch     |-> "group3",
          message    |-> <<"Based on your category [">> \o category \o
                         <<"], this is within Affordable Care services. Proceeding to Group 3 process.">>,
          category   |-> category,
          confidence |-> confidence,
          action     |-> "proceed_to_group3" ]
    ELSE IF category \in GROUP4_CATEGORIES THEN
        [ branch     |-> "group4",
          message    |-> <<"Based on your category [">> \o category \o
                         <<"], this is within Local Events services. Transferring to Group 4 process.">>,
          category   |-> category,
          confidence |-> confidence,
          action     |-> "transfer_to_group4" ]
    ELSE IF category \in OTHER_CATEGORIES THEN
        [ branch     |-> "other",
          message    |-> <<"Based on your category [">> \o category \o
                         <<"], this is currently out of scope. Please return to the previous step and try again.">>,
          category   |-> category,
          confidence |-> confidence,
          action     |-> "return_to_previous_step" ]
    ELSE
        [ branch     |-> "unknown",
          message    |-> <<"Sorry, unable to recognize category [">> \o category \o
                         <<"]. Please rephrase your needs.">>,
          category   |-> category,
          confidence |-> confidence,
          action     |-> "ask_for_clarification" ]

\* Mutant: the low-confidence warning with its threshold included.
ProcessWarnInclusive(group2_result) ==
    LET category   == Get(group2_result, "category", <<>>)
        confidence == Get(group2_result, "confidence", None)
        routing_decision == route_category(category, confidence)
        with_input ==
            IF "user_input" \in DOMAIN group2_result
            THEN Put(routing_decision, "original_input", group2_result["user_input"])
            ELSE routing_decision
    IN  IF Truthy(confidence) /\ confidence <= 500
        THEN Put(with_input, "warning",
                 <<"WARNING: Classification confidence is low (">> \o
                 FormatPercent(confidence) \o
                 <<"), result may be inaccurate">>)
        ELSE with_input

process_group2_output(group2_result) ==
    LET category   == Get(group2_result, "category", <<>>)
        confidence == Get(group2_result, "confidence", None)
        routing_decision == route_category(category, confidence)
        with_input ==
            IF "user_input" \in DOMAIN group2_result
            THEN Put(routing_decision, "original_input", group2_result["user_input"])
            ELSE routing_decision
    IN  IF Truthy(confidence) /\ confidence < 500
        THEN Put(with_input, "warning",
                 <<"WARNING: Classification confidence is low (">> \o
                 FormatPercent(confidence) \o
                 <<"), result may be inaccurate">>)
        ELSE with_input

\* The care level of a stripped category: the first urgency tier holding it.
CareLevelOf(category) ==
    IF category \in URGENT_CATEGORIES THEN "URGENT"
    ELSE IF category \in MODERATE_CATEGORIES THEN "MODERATE"
    ELSE IF category \in LOW_PRIORITY_CATEGORIES THEN "LOW"
    ELSE NoCareLevel

\* Mutant: the stop rule without its care-level test.
StopRuleAnyCareLevel(care_level, confidence) ==
    Truthy(confidence) /\ confidence < 500

\* Mutant: the stop rule with its threshold included.
StopRuleInclusive(care_level, confidence) ==
    care_level = "LOW" /\ Truthy(confidence) /\ confidence <= 500

\* The stop rule's test: low priority and a low confidence.
StopRule(care_level, confidence) ==
    care_level = "LOW" /\ Truthy(confidence) /\ confidence < 500

\* The decision of the stop rule.
StopDecision(category, confidence, care_level) ==
    [ branch     |-> "no_care_needed",
      message    |-> <<"Based on your input, you're doing well! The assessment suggests ">> \o
                     Lower(category) \o
                     <<", which you can explore on your own. No immediate professional support needed.">>,
      category   |-> category,
      confidence |-> confidence,
      action     |-> "stop_execution",
      care_level |-> care_level ]

\* Mutant: the critical band with its threshold included.
CriticalInclusiveOverlay(decision0, confidence, care_level) ==
    IF Truthy(confidence) /\ confidence <= 300 THEN
        LET d1 == Put(decision0, "confidence_warning", "CRITICAL")
            d2 == Put(d1, "warning",
                      <<"CRITICAL: Very low confidence (">> \o
                      FormatPercent(confidence) \o
                      <<"). Manual review strongly recommended before proceeding.">>)
            d3 == Put(d2, "requires_manual_review", TRUE)
        IN  IF care_level /= "URGENT"
            THEN Put(d3, "message",
                     d3["message"] \o <<"\nCRITICAL WARNING: Confidence only ">> \o
                     FormatPercent(confidence) \o <<". Consider manual review.">>)
            ELSE d3
    ELSE IF Truthy(confidence) /\ confidence < 500 THEN
        LET d1 == Put(decision0, "confidence_warning", "LOW")
            d2 == Put(d1, "requires_confirmation", TRUE)
        IN  Put(d2, "message",
                d2["message"] \o <<" [Low confidence (">> \o
                FormatPercent(confidence) \o
                <<") - please confirm before proceeding]">>)
    ELSE decision0

\* Mutant: the critical band also sends the request back for clarification.
OverlayRedirectingCritical(decision0, confidence, care_level) ==
    IF Truthy(confidence) /\ confidence < 300 THEN
        LET d1 == Put(decision0, "confidence_warning", "CRITICAL")
            d2 == Put(d1, "warning",
                      <<"CRITICAL: Very low confidence (">> \o
                      FormatPercent(confidence) \o
                      <<"). Manual review strongly recommended before proceeding.">>)
            d3 == Put(Put(d2, "requires_manual_review", TRUE),
                      "action", "ask_for_clarification")
        IN  IF care_level /= "URGENT"
            THEN Put(d3, "message",
                     d3["message"] \o <<"\nCRITICAL WARNING: Confidence only ">> \o
                     FormatPercent(confidence) \o <<". Consider manual review.">>)
            ELSE d3
    ELSE IF Truthy(confidence) /\ confidence < 500 THEN
        LET d1 == Put(decision0, "confidence_warning", "LOW")
            d2 == Put(d1, "requires_confirmation", TRUE)
        IN  Put(d2, "message",
                d2["message"] \o <<" [Low confidence (">> \o
                FormatPercent(confidence) \o
                <<") - please confirm before proceeding]">>)
    ELSE decision0

\* Mutant: the low band asks for a manual review as well.
OverlayLowWithManualReview(decision0, confidence, care_level) ==
    IF Truthy(confidence) /\ confidence < 300 THEN
        LET d1 == Put(decision0, "confidence_warning", "CRITICAL")
            d2 == Put(d1, "warning",
                      <<"CRITICAL: Very low confidence (">> \o
                      FormatPercent(confidence) \o
                      <<"). Manual review strongly recommended before proceeding.">>)
            d3 == Put(d2, "requires_manual_review", TRUE)
        IN  IF care_level /= "URGENT"
            THEN Put(d3, "message",
                     d3["message"] \o <<"\nCRITICAL WARNING: Confidence only ">> \o
                     FormatPercent(confidence) \o <<". Consider manual review.">>)
            ELSE d3
    ELSE IF Truthy(confidence) /\ confidence < 500 THEN
        LET d1 == Put(decision0, "confidence_warning", "LOW")
            d2 == Put(Put(d1, "requires_confirmation", TRUE),
                      "requires_manual_review", TRUE)
        IN  Put(d2, "message",
                d2["message"] \o <<" [Low confidence (">> \o
                FormatPercent(confidence) \o
                <<") - please confirm before proceeding]">>)
    ELSE decision0

\* The confidence-based warnings put on a routed decision.
ConfidenceOverlay(decision0, confidence, care_level) ==
    IF Truthy(confidence) /\ confidence < 300 THEN
        LET d1 == Put(decision0, "confidence_warning", "CRITICAL")
            d2 == Put(d1, "warning",
                      <<"CRITICAL: Very low confidence (">> \o
                      FormatPercent(confidence) \o
                      <<"). Manual review strongly recommended before proceeding.">>)
            d3 == Put(d2, "requires_manual_review", TRUE)
        IN  IF care_level /= "URGENT"
            THEN Put(d3, "message",
                     d3["message"] \o <<"\nCRITICAL WARNING: Confidence only ">> \o
                     FormatPercent(confidence) \o <<". Consider manual review.">>)
            ELSE d3
    ELSE IF Truthy(confidence) /\ confidence < 500 THEN
        LET d1 == Put(decision0, "confidence_warning", "LOW")
            d2 == Put(d1, "requires_confirmation", TRUE)
        IN  Put(d2, "message",
                d2["message"] \o <<" [Low confidence (">> \o
                FormatPercent(confidence) \o
                <<") - please confirm before proceeding]">>)
    ELSE decision0

\* The pair (is_ours, decision) the main entry function returns.
handle_group2_input(g2_output) ==
    LET confidence == Get(g2_output, "confidence", None)
        category   == Strip(Get(g2_output, "category", <<>>))
        care_level == CareLevelOf(category)
    IN  IF StopRule(care_level, confidence)
        THEN [ is_ours  |-> FALSE,
               decision |-> StopDecision(category, confidence, care_level) ]
        ELSE LET routed == Put(process_group2_output(g2_output),
                               "care_level", care_level)
             IN  [ is_ours  |-> routed["branch"] = "group3",
                   decision |-> ConfidenceOverlay(routed, confidence, care_level) ]

-----------------------------------------------------------------------------
(* The inputs *)

WhitespaceChars == {" ", "\t"}

\* Runs of whitespace of at most MaxPad characters.
Pads == UNION { [1..n -> WhitespaceChars] : n \in 0..MaxPad }

\* Every category of the tables, and texts that are in none of them.
CategoryTexts ==
    GROUP3_CATEGORIES \cup GROUP4_CATEGORIES \cup OTHER_CATEGORIES
    \cup URGENT_CATEGORIES \cup MODERATE_CATEGORIES \cup LOW_PRIORITY_CATEGORIES
    \cup { <<>>, <<"Yoga">>, <<"mental health">> }

CategoryStrings ==
    { lead \o text \o trail : lead \in Pads, text \in CategoryTexts, trail \in Pads }

\* Confidences in thousandths: both ends of [0, 1], the two thresholds and
\* their neighbours, and values inside each band.
Confidences == {0, 1, 150, 299, 300, 301, 400, 499, 500, 501, 950, 1000}

UserInputs == { <<"I need affordable therapy for anxiety">> }

\* A dict with the given keys out of category, confidence and user_input.
MakeInput(keys, category, confidence, user_input) ==
    [ k \in keys |->
        CASE k = "category"   -> category
          [] k = "confidence" -> confidence
          [] k = "user_input" -> user_input ]

Group2Outputs ==
    { MakeInput(keys, category, confidence, user_input) :
        keys \in SUBSET {"category", "confidence", "user_input"},
        category \in CategoryStrings,
        confidence \in Confidences \cup {None},
        user_input \in UserInputs }

-----------------------------------------------------------------------------
(* The facility validator: AntiHallucinationValidator *)

\* Confidence thresholds, in hundredths.
CONFIDENCE_THRESHOLDS == [high |-> 70, medium |-> 50, low |-> 30]

\* Score reasonability thresholds, in tenths.
SCORE_THRESHOLDS == [suspiciously_high |-> 95, suspiciously_low |-> 20]

\* The five scoring dimensions, in the order the loops visit them.
Dimensions ==
    << "affordability", "crisis_care", "accessibility", "specialization",
       "community_integration" >>

\* f'{dim}_similarity' and the '<dim>_score' keys.
SimilarityKey(dim) == dim \o "_similarity"

ScoreKey(dim) == dim \o "_score"

RECURSIVE SumSeq(_)
SumSeq(xs) == IF xs = <<>> THEN 0 ELSE Head(xs) + SumSeq(Tail(xs))

\* The values of the keys of a dict that are present, in the order of keys.
RECURSIVE PresentValues(_, _)
PresentValues(d, keys) ==
    IF keys = <<>> THEN <<>>
    ELSE (IF Head(keys) \in DOMAIN d THEN << d[Head(keys)] >> ELSE <<>>)
         \o PresentValues(d, Tail(keys))

\* f"{x:.1f}" of a number of tenths.
FormatTenths(x) == << ToString(x \div 10), ".", ToString(x % 10) >>

\* Truth value of facility.get(field): a missing field gives None, and the
\* empty string is false.
FieldTruthy(facility, field) ==
    field \in DOMAIN facility /\ facility[field] /= <<>>

\* Mutant: the tier taken from the score whenever the facility has one.
ScoreConfidenceScoreFirst(facility) ==
    LET similarities ==
            PresentValues(facility,
                          [i \in DOMAIN Dimensions |-> SimilarityKey(Dimensions[i])])
    IN  IF similarities = <<>> \/ "score" \in DOMAIN facility THEN
            LET score == Get(facility, "score", 0) IN
            IF score >= 85 THEN "high"
            ELSE IF score >= 70 THEN "medium"
            ELSE "low"
        ELSE
            LET total == SumSeq(similarities)
                n == Len(similarities)
            IN  IF total >= CONFIDENCE_THRESHOLDS.high * n THEN "high"
                ELSE IF total >= CONFIDENCE_THRESHOLDS.medium * n THEN "medium"
                ELSE "low"

\* The confidence tier of a facility.
_check_score_confidence(facility) ==
    LET similarities ==
            PresentValues(facility,
                          [i \in DOMAIN Dimensions |-> SimilarityKey(Dimensions[i])])
    IN  IF similarities = <<>> THEN
            LET score == Get(facility, "score", 0) IN
            IF score >= 85 THEN "high"
            ELSE IF score >= 70 THEN "medium"
            ELSE "low"
        ELSE
            \* avg_similarity >= t, with avg = sum / len
            LET total == SumSeq(similarities)
                n == Len(similarities)
            IN  IF total >= CONFIDENCE_THRESHOLDS.high * n THEN "high"
                ELSE IF total >= CONFIDENCE_THRESHOLDS.medium * n THEN "medium"
                ELSE "low"

required_fields == {"name", "city", "state"}

optional_fields == {"address", "phone", "zip"}

\* Mutant: the completeness that counts a required 'nan' as a value.
CompletenessCountingNan(facility) ==
    LET complete_required ==
            Cardinality({ field \in required_fields :
                /\ FieldTruthy(facility, field)
                /\ Strip(facility[field]) /= <<>> })
        complete_optional ==
            Cardinality({ field \in optional_fields :
                LET value == Get(facility, field, <<>>) IN
                /\ value /= <<>>
                /\ Strip(value) /= <<>>
                /\ Lower(value) \notin { <<"nan">>, <<"address not available">>,
                                         <<"phone not available">>, <<>> } })
    IN  ((((complete_required * 30) \div Cardinality(required_fields)) * 8) \div 10)
        + ((((complete_optional * 30) \div Cardinality(optional_fields)) * 2) \div 10)

\* The completeness of a facility, in thirtieths.
_check_data_completeness(facility) ==
    LET complete_required ==
            Cardinality({ field \in required_fields :
                /\ FieldTruthy(facility, field)
                /\ Strip(facility[field]) /= <<>>
                /\ Lower(facility[field]) /= <<"nan">> })
        complete_optional ==
            Cardinality({ field \in optional_fields :
                LET value == Get(facility, field, <<>>) IN
                /\ value /= <<>>
                /\ Strip(value) /= <<>>
                /\ Lower(value) \notin { <<"nan">>, <<"address not available">>,
                                         <<"phone not available">>, <<>> } })
    IN  \* (complete_required / 3) * 0.8 + (complete_optional / 3) * 0.2
        ((((complete_required * 30) \div Cardinality(required_fields)) * 8) \div 10)
        + ((((complete_optional * 30) \div Cardinality(optional_fields)) * 2) \div 10)

\* n^2 times the population variance of xs (np.std squared).
ScaledVariance(xs) ==
    Len(xs) * SumSeq([i \in DOMAIN xs |-> xs[i] * xs[i]]) - SumSeq(xs) * SumSeq(xs)

\* np.std(xs) rounded to a whole number of tenths, as f"{std_dev:.1f}" shows
\* it (for a deviation that is not halfway between two of them).
RoundedStdDev(xs) ==
    LET n2 == Len(xs) * Len(xs)
        v4 == 4 * ScaledVariance(xs)
    IN  CHOOSE r \in 0..100 :
            /\ (2 * r - 1) * (2 * r - 1) * n2 <= v4 \/ r = 0
            /\ v4 < (2 * r + 1) * (2 * r + 1) * n2

_check_score_anomalies(facility) ==
    LET overall_score == Get(facility, "score", 0)
        high ==
            IF overall_score >= SCORE_THRESHOLDS.suspiciously_high
            THEN << <<"Abnormally high score (">> \o FormatTenths(overall_score) \o
                    <<"/10), manual verification recommended">> >>
            ELSE <<>>
        low ==
            IF overall_score <= SCORE_THRESHOLDS.suspiciously_low
            THEN << <<"Abnormally low score (">> \o FormatTenths(overall_score) \o
                    <<"/10), may not match criteria">> >>
            ELSE <<>>
        dimension_scores ==
            PresentValues(facility,
                          [i \in DOMAIN Dimensions |-> ScoreKey(Dimensions[i])])
        variance ==
            \* std_dev > 2.0, squared: variance > 4.0, scores being in tenths
            IF /\ dimension_scores /= <<>>
               /\ ScaledVariance(dimension_scores)
                    > 400 * Len(dimension_scores) * Len(dimension_scores)
            THEN << <<"High score variance (std dev=">> \o
                    FormatTenths(RoundedStdDev(dimension_scores)) \o
                    <<"), may be unreliable">> >>
            ELSE <<>>
    IN  high \o low \o variance

\* Mutant: the weights with 'low' above 'medium'.
ConfidenceWeightLowAboveMedium(confidence) ==
    CASE confidence = "high"    -> 10
      [] confidence = "medium"  -> 7
      [] confidence = "low"     -> 8
      [] OTHER -> 3

\* confidence_weights.get(confidence, 0.3), in tenths.
ConfidenceWeight(confidence) ==
    CASE confidence = "high"    -> 10
      [] confidence = "medium"  -> 7
      [] confidence = "low"     -> 4
      [] confidence = "unknown" -> 3
      [] OTHER -> 3

Min(a, b) == IF a <= b THEN a ELSE b

Max(a, b) == IF a >= b THEN a ELSE b

\* Mutant: the reliability score without its base of 0.1.
ReliabilityWithoutBase(facility, confidence, completeness) ==
    Min(100, Max(0, ConfidenceWeight(confidence) * 6 + completeness))

\* The reliability score in points, the completeness being in thirtieths:
\* (weight * 0.6 + completeness * 0.3 + 0.1) * 100.
_calculate_reliability(facility, confidence, completeness) ==
    LET confidence_score == ConfidenceWeight(confidence)
        reliability == confidence_score * 6 + completeness + 10
    IN  Min(100, Max(0, reliability))

\* f"{completeness*100:.0f}" of a completeness in thirtieths (no value of it
\* lies halfway between two whole percentages).
FormatCompleteness(completeness) ==
    << ToString((completeness * 100 + 15) \div 30) >>

\* Mutant: validate_facility taking 'source' out of the facility (pop for get).
ValidateFacilityPoppingSource(facility) ==
    LET confidence == _check_score_confidence(facility)
        completeness == _check_data_completeness(facility)
        incomplete ==
            IF completeness < 15
            THEN << <<"Incomplete data (">> \o FormatCompleteness(completeness) \o
                    <<"%)">> >>
            ELSE <<>>
        score_anomalies == _check_score_anomalies(facility)
        validation ==
            [ confidence_level  |-> confidence,
              warnings          |-> incomplete \o score_anomalies,
              data_source       |-> Get(facility, "source", <<"unknown">>),
              reliability_score |->
                  _calculate_reliability(facility, confidence, completeness) ]
    IN  Put([k \in DOMAIN facility \ {"source"} |-> facility[k]],
            "validation", validation)

\* Mutant: validate_facility adding its warnings to those of an earlier record.
ValidateFacilityMergingWarnings(facility) ==
    LET confidence == _check_score_confidence(facility)
        completeness == _check_data_completeness(facility)
        incomplete ==
            IF completeness < 15
            THEN << <<"Incomplete data (">> \o FormatCompleteness(completeness) \o
                    <<"%)">> >>
            ELSE <<>>
        score_anomalies == _check_score_anomalies(facility)
        validation ==
            [ confidence_level  |-> confidence,
              warnings          |->
                  Get(Get(facility, "validation", [warnings |-> <<>>]),
                      "warnings", <<>>) \o incomplete \o score_anomalies,
              data_source       |-> Get(facility, "source", <<"unknown">>),
              reliability_score |->
                  _calculate_reliability(facility, confidence, completeness) ]
    IN  Put(facility, "validation", validation)

\* validator.validate_facility(facility): the facility after the call.
validate_facility(facility) ==
    LET confidence == _check_score_confidence(facility)
        completeness == _check_data_completeness(facility)
        incomplete ==
            IF completeness < 15
            THEN << <<"Incomplete data (">> \o FormatCompleteness(completeness) \o
                    <<"%)">> >>
            ELSE <<>>
        score_anomalies == _check_score_anomalies(facility)
        validation ==
            [ confidence_level  |-> confidence,
              warnings          |-> incomplete \o score_anomalies,
              data_source       |-> Get(facility, "source", <<"unknown">>),
              reliability_score |->
                  _calculate_reliability(facility, confidence, completeness) ]
    IN  Put(facility, "validation", validation)

validate_results(facs) == [i \in DOMAIN facs |-> validate_facility(facs[i])]

\* The dicts of the list after get_high_confidence_facilities validated
\* them, and the list it returns.
get_high_confidence_facilities(facs) ==
    LET validated == validate_results(facs)
        IsHigh(f) ==
            Get(Get(f, "validation", <<>>), "confidence_level", "") = "high"
    IN  [ facilities |-> validated,
          returned   |-> SelectSeq(validated, IsHigh) ]

\* Mutant: VERIFIED only above 70 points.
BadgesVerifiedAboveSeventy(facility) ==
    LET validation == Get(facility, "validation", <<>>)
        reliability == Get(validation, "reliability_score", 0)
        confidence == Get(validation, "confidence_level", "unknown")
    IN  (IF reliability > 70 THEN <<"VERIFIED">> ELSE <<>>)
        \o (IF confidence = "high" THEN <<"HIGH CONFIDENCE">> ELSE <<>>)
        \o (IF Get(validation, "warnings", <<>>) = <<>>
            THEN <<"NO WARNINGS">> ELSE <<>>)

\* The badges of a validated facility.
BadgesOf(facility) ==
    LET validation == Get(facility, "validation", <<>>)
        reliability == Get(validation, "reliability_score", 0)
        confidence == Get(validation, "confidence_level", "unknown")
    IN  (IF reliability >= 70 THEN <<"VERIFIED">> ELSE <<>>)
        \o (IF confidence = "high" THEN <<"HIGH CONFIDENCE">> ELSE <<>>)
        \o (IF Get(validation, "warnings", <<>>) = <<>>
            THEN <<"NO WARNINGS">> ELSE <<>>)

add_validation_badges(facs) ==
    LET validated == validate_results(facs)
    IN  [i \in DOMAIN validated |->
            Put(validated[i], "badges", BadgesOf(validated[i]))]

-----------------------------------------------------------------------------
(* The facilities given to the validator *)

\* Longest list made of the test facilities.
MaxBatch == 2

\* The three facilities of the module's own test.
TestFacility1 ==
    [ name |-> <<"Test Facility 1 - High Quality">>, city |-> <<"Hartford">>,
      state |-> <<"CT">>, address |-> <<"123 Main St">>,
      phone |-> <<"(860) 123-4567">>, score |-> 85,
      affordability_score |-> 90, crisis_care_score |-> 80,
      accessibility_score |-> 85, specialization_score |-> 80,
      community_integration_score |-> 90, affordability_similarity |-> 75,
      source |-> <<"Google Maps">> ]

TestFacility2 ==
    [ name |-> <<"Test Facility 2 - Incomplete Data">>, city |-> <<"New Haven">>,
      state |-> <<"CT">>, address |-> <<>>, phone |-> <<>>, score |-> 65,
      affordability_score |-> 70, crisis_care_score |-> 50,
      accessibility_score |-> 60, specialization_score |-> 70,
      community_integration_score |-> 75, affordability_similarity |-> 45,
      source |-> <<"SAMHSA">> ]

TestFacility3 ==
    [ name |-> <<"Test Facility 3 - Suspicious Score">>, city |-> <<"Bridgeport">>,
      state |-> <<"CT">>, address |-> <<"789 Oak Ave">>,
      phone |-> <<"(203) 987-6543">>, score |-> 98,
      affordability_score |-> 99, crisis_care_score |-> 98,
      accessibility_score |-> 97, specialization_score |-> 99,
      community_integration_score |-> 98, affordability_similarity |-> 85,
      source |-> <<"NPI">> ]

test_facilities == { TestFacility1, TestFacility2, TestFacility3 }

\* A real value for each contact field.
ValidText ==
    [ name |-> <<"Community Clinic">>, city |-> <<"Hartford">>, state |-> <<"CT">>,
      address |-> <<"123 Main St">>, phone |-> <<"(860) 123-4567">>,
      zip |-> <<"06101">> ]

\* Values of a field that stand for no value: empty, blank and nan for a
\* required field; empty, nan and not available for an optional one.
PlaceholderTexts(field) ==
    IF field \in required_fields
    THEN { <<>>, <<" ">>, <<"NaN">> }
    ELSE { <<>>, <<"nan">>, <<"Address not available">>,
           <<"phone not available">> }

ContactFields == required_fields \cup optional_fields

\* Contact parts: any of the six fields with a real value, and a placeholder
\* in one field of a facility that has the name, the required fields or all
\* six.
Contacts ==
    LET plain == { [k \in keys |-> ValidText[k]] : keys \in SUBSET ContactFields }
        bases == { ValidText, [k \in required_fields |-> ValidText[k]],
                   [name |-> ValidText.name] }
    IN  plain \cup UNION { { Put(c, field, text) :
                                c \in bases, text \in PlaceholderTexts(field) } :
                              field \in ContactFields }

\* Overall scores in tenths: the ends of the scale, and both sides of 2.0,
\* 7.0, 8.5 and 9.5.
ScoreValues == {0, 20, 21, 69, 70, 84, 85, 94, 95, 98, 100}

ScoreParts == { <<>> } \cup { [score |-> v] : v \in ScoreValues }

\* Similarities in hundredths: none, one on both sides of 0.50 and 0.70,
\* and two whose average is on both sides of them.
SimilarityParts ==
    { <<>> }
    \cup { [affordability_similarity |-> v] : v \in {49, 50, 69, 70} }
    \cup { [crisis_care_similarity |-> p[1], community_integration_similarity |-> p[2]] :
              p \in { <<50, 90>>, <<49, 90>>, <<30, 70>>, <<30, 69>> } }

\* Dimension scores in tenths: none, one, two with a standard deviation of
\* exactly 2.0 and just above it, and all five, close and far apart.
DimensionParts ==
    { <<>>,
      [affordability_score |-> 90],
      [crisis_care_score |-> 10, specialization_score |-> 50],
      [crisis_care_score |-> 10, specialization_score |-> 52],
      [affordability_score |-> 70, crisis_care_score |-> 50,
       accessibility_score |-> 60, specialization_score |-> 70,
       community_integration_score |-> 75],
      [affordability_score |-> 0, crisis_care_score |-> 100,
       accessibility_score |-> 0, specialization_score |-> 100,
       community_integration_score |-> 50] }

\* Facilities that vary in their contact fields, for three kinds of scoring.
ContactVariedFacilities ==
    { c @@ sc : c \in Contacts,
                sc \in { <<>>, [score |-> 75, source |-> <<"SAMHSA">>],
                         [score |-> 60, affordability_similarity |-> 85] } }

\* Facilities that vary in their scoring, complete or with a name only.
ScoringVariedFacilities ==
    { c @@ sp @@ sim @@ dp :
        c \in { ValidText, [name |-> ValidText.name] },
        sp \in ScoreParts, sim \in SimilarityParts, dp \in DimensionParts }

Facilities == ContactVariedFacilities \cup ScoringVariedFacilities

\* The lists the validator is called on: one facility, or up to MaxBatch of
\* the test facilities (none included).
FacilityLists ==
    { <<f>> : f \in Facilities }
    \cup UNION { [1..n -> test_facilities] : n \in 0..MaxBatch }

-----------------------------------------------------------------------------
(* The state machine: one input, one call *)

Init ==
    /\ group2_output \in Group2Outputs
    /\ pc = "ready"
    /\ call = "none"
    /\ is_ours = FALSE
    /\ decision = <<>>
    /\ facilities = <<>>
    /\ prev = <<>>
    /\ vcall = "none"
    /\ returned = <<>>

\* is_ours, decision = handle_group2_input(group2_output)
HandleGroup2Input ==
    /\ pc = "ready"
    /\ LET r == handle_group2_input(group2_output)
       IN  /\ is_ours' = r.is_ours
           /\ decision' = r.decision
    /\ call' = "handle_group2_input"
    /\ pc' = "done"
    /\ UNCHANGED <<group2_output, validator_vars>>

\* decision = process_group2_output(group2_output)
ProcessGroup2Output ==
    /\ pc = "ready"
    /\ decision' = process_group2_output(group2_output)
    /\ call' = "process_group2_output"
    /\ pc' = "done"
    /\ UNCHANGED <<group2_output, is_ours, validator_vars>>

\* decision = route_category(category, confidence), the category being the
\* positional argument the caller must have.
RouteCategory ==
    /\ pc = "ready"
    /\ "category" \in DOMAIN group2_output
    /\ decision' = route_category(group2_output["category"],
                                  Get(group2_output, "confidence", None))
    /\ call' = "route_category"
    /\ pc' = "done"
    /\ UNCHANGED <<group2_output, is_ours, validator_vars>>

Next == HandleGroup2Input \/ ProcessGroup2Output \/ RouteCategory

Spec == Init /\ [][Next]_vars

-----------------------------------------------------------------------------
(* The state machine of the validator: one list, any number of calls *)

ValidatorInit ==
    /\ facilities \in FacilityLists
    /\ prev = <<>>
    /\ vcall = "none"
    /\ returned = <<>>
    /\ group2_output = <<>>
    /\ pc = "idle"
    /\ call = "none"
    /\ is_ours = FALSE
    /\ decision = <<>>

\* validator.validate_facility(facilities[i])
ValidateFacility ==
    /\ \E i \in DOMAIN facilities :
          LET validated == validate_facility(facilities[i])
          IN  /\ facilities' = [facilities EXCEPT ![i] = validated]
              /\ returned' = << validated >>
    /\ prev' = facilities
    /\ vcall' = "validate_facility"
    /\ UNCHANGED router_vars

\* validator.validate_results(facilities)
ValidateResults ==
    /\ LET validated == validate_results(facilities)
       IN  /\ facilities' = validated
           /\ returned' = validated
    /\ prev' = facilities
    /\ vcall' = "validate_results"
    /\ UNCHANGED router_vars

\* get_high_confidence_facilities(facilities)
GetHighConfidenceFacilities ==
    /\ LET r == get_high_confidence_facilities(facilities)
       IN  /\ facilities' = r.facilities
           /\ returned' = r.returned
    /\ prev' = facilities
    /\ vcall' = "get_high_confidence_facilities"
    /\ UNCHANGED router_vars

\* add_validation_badges(facilities)
AddValidationBadges ==
    /\ LET with_badges == add_validation_badges(facilities)
       IN  /\ facilities' = with_badges
           /\ returned' = with_badges
    /\ prev' = facilities
    /\ vcall' = "add_validation_badges"
    /\ UNCHANGED router_vars

ValidatorNext ==
    \/ ValidateFacility
    \/ ValidateResults
    \/ GetHighConfidenceFacilities
    \/ AddValidationBadges

ValidatorSpec == ValidatorInit /\ [][ValidatorNext]_vars

-----------------------------------------------------------------------------
(* What the properties below read off a state *)

\* handle_group2_input has returned.
Handled == pc = "done" /\ call = "handle_group2_input"

\* The input's category as written (the default '' when the key is missing).
RawCategory == Get(group2_output, "category", <<>>)

\* The input's confidence, None when absent.
InputConfidence == Get(group2_output, "confidence", None)

\* The input's category without its surrounding whitespace: what lies from
\* its first to its last chunk that is not whitespace.
InputCategory ==
    LET s == RawCategory
        text == { k \in 1..Len(s) : ~IsSpace(s[k]) }
    IN  IF text = {} THEN <<>>
        ELSE SubSeq(s, CHOOSE k \in text : \A m \in text : k <= m,
                       CHOOSE k \in text : \A m \in text : k >= m)

\* The message of the plain routing of the input.
BaseMessage == route_category(RawCategory, InputConfidence)["message"]

\* The fields the confidence checks may add to a decision.
WarningKeys ==
    {"warning", "confidence_warning", "requires_confirmation",
     "requires_manual_review"}

Stopped ==
    decision["branch"] = "no_care_needed" \/ decision["action"] = "stop_execution"

-----------------------------------------------------------------------------
(* C1 .. C10 *)

\* C1 (as claimed): for a category of the LOW tier and a confidence that is
\* present and below 0.50, 0.0 included, handle_group2_input returns
\* is_ours = False and the stop decision (no_care_needed, stop_execution, LOW).
C1_StopRuleFromZero ==
    (Handled /\ InputCategory \in LOW_PRIORITY_CATEGORIES
             /\ InputConfidence /= None /\ InputConfidence < 500)
    => /\ is_ours = FALSE
       /\ decision["branch"] = "no_care_needed"
       /\ decision["action"] = "stop_execution"
       /\ decision["care_level"] = "LOW"

\* C2: for a category of the URGENT tier, whatever the confidence, the
\* decision of handle_group2_input is never the stop decision.
C2_UrgentNeverStopped ==
    (Handled /\ InputCategory \in URGENT_CATEGORIES)
    => /\ decision["branch"] /= "no_care_needed"
       /\ decision["action"] /= "stop_execution"

\* An urgent category handled at a confidence the stop rule would act on.
C2_Witness ==
    /\ Handled
    /\ InputCategory \in URGENT_CATEGORIES
    /\ InputConfidence \in 1..499
    /\ ~Stopped

\* C3 (as claimed, on the inputs the stop rule leaves alone): a confidence
\* that is present and below 0.30, 0.0 included, gives confidence_warning =
\* CRITICAL and requires_manual_review = True, and the critical sentence is
\* appended to the message unless the care level is URGENT.
C3_CriticalFromZero ==
    (Handled /\ ~Stopped /\ InputConfidence /= None /\ InputConfidence < 300)
    => /\ "confidence_warning" \in DOMAIN decision
       /\ decision["confidence_warning"] = "CRITICAL"
       /\ "requires_manual_review" \in DOMAIN decision
       /\ decision["requires_manual_review"] = TRUE
       /\ decision["message"] =
             IF decision["care_level"] = "URGENT" THEN BaseMessage
             ELSE BaseMessage \o <<"\nCRITICAL WARNING: Confidence only ">> \o
                  FormatPercent(InputConfidence) \o <<". Consider manual review.">>

\* C4 (as claimed): every category of URGENT_CATEGORIES, at every
\* confidence, proceeds into facility processing: is_ours = True, branch
\* group3, action proceed_to_group3.
C4_UrgentAlwaysProceeds ==
    (Handled /\ InputCategory \in URGENT_CATEGORIES)
    => /\ is_ours = TRUE
       /\ decision["branch"] = "group3"
       /\ decision["action"] = "proceed_to_group3"

\* C5: for a category of the LOW tier and a confidence of 0.50 or more the
\* stop rule does not fire and the category is routed as usual: is_ours =
\* True, branch group3, action proceed_to_group3, care_level LOW.
C5_LowTierProceedsFromHalf ==
    (Handled /\ InputCategory \in LOW_PRIORITY_CATEGORIES /\ InputConfidence >= 500)
    => /\ ~Stopped
       /\ is_ours = TRUE
       /\ decision["branch"] = "group3"
       /\ decision["action"] = "proceed_to_group3"
       /\ decision["care_level"] = "LOW"

\* A low-priority category handled at exactly 0.50.
C5_Witness ==
    /\ Handled
    /\ InputCategory \in LOW_PRIORITY_CATEGORIES
    /\ InputConfidence = 500
    /\ is_ours = TRUE

\* The sets of a family that hold category c.
Holding(family, c) == { T \in family : c \in T }

\* C6: the three branch tables are pairwise disjoint and so are the three
\* urgency tiers, so the category of every decision is in at most one branch
\* table (its branch being that table's, or unknown) and at most one tier.
C6_TablesPartition ==
    /\ GROUP3_CATEGORIES \cap GROUP4_CATEGORIES = {}
    /\ GROUP3_CATEGORIES \cap OTHER_CATEGORIES = {}
    /\ GROUP4_CATEGORIES \cap OTHER_CATEGORIES = {}
    /\ URGENT_CATEGORIES \cap MODERATE_CATEGORIES = {}
    /\ URGENT_CATEGORIES \cap LOW_PRIORITY_CATEGORIES = {}
    /\ MODERATE_CATEGORIES \cap LOW_PRIORITY_CATEGORIES = {}
    /\ pc = "done" =>
         LET c == decision["category"]
             branches == Holding({GROUP3_CATEGORIES, GROUP4_CATEGORIES,
                                  OTHER_CATEGORIES}, c)
             tiers == Holding({URGENT_CATEGORIES, MODERATE_CATEGORIES,
                               LOW_PRIORITY_CATEGORIES}, c)
         IN  /\ Cardinality(branches) <= 1
             /\ Cardinality(tiers) <= 1
             /\ (branches = {}) = (decision["branch"] = "unknown")

\* A category with a branch table and an urgency tier of its own was routed.
C6_Witness ==
    /\ Handled
    /\ decision["category"] \in OTHER_CATEGORIES \cap URGENT_CATEGORIES
    /\ decision["branch"] = "other"
    /\ decision["care_level"] = "URGENT"

\* C7 (as claimed): without a confidence handle_group2_input never stops,
\* adds none of the warning fields and leaves the base message as it is; and
\* a confidence of 0.0 is not handled like that but as a present value below
\* 0.30: a LOW category is stopped, any other gets the CRITICAL overlay.
C7_AbsentIsNotZero ==
    /\ (Handled /\ InputConfidence = None)
       => /\ ~Stopped
          /\ DOMAIN decision \cap WarningKeys = {}
          /\ decision["message"] = BaseMessage
    /\ (Handled /\ InputConfidence = 0)
       => IF InputCategory \in LOW_PRIORITY_CATEGORIES
          THEN Stopped
          ELSE /\ "confidence_warning" \in DOMAIN decision
               /\ "requires_manual_review" \in DOMAIN decision

\* C8: route_category maps every category string, trimmed of surrounding
\* whitespace, to the branch and action of the table holding it, and to
\* unknown / ask_for_clarification when none does (the empty string and a
\* missing category field included).
C8_RouteCategoryTotal ==
    (pc = "done" /\ call \in {"route_category", "process_group2_output"})
    => LET c == InputCategory IN
       /\ decision["category"] = c
       /\ <<decision["branch"], decision["action"]>> =
             IF c \in GROUP3_CATEGORIES THEN <<"group3", "proceed_to_group3">>
             ELSE IF c \in GROUP4_CATEGORIES THEN <<"group4", "transfer_to_group4">>
             ELSE IF c \in OTHER_CATEGORIES THEN <<"other", "return_to_previous_step">>
             ELSE <<"unknown", "ask_for_clarification">>

\* A Group 4 category written with whitespace on both sides was routed.
C8_Witness ==
    /\ pc = "done"
    /\ call = "route_category"
    /\ RawCategory /= <<>>
    /\ IsSpace(RawCategory[1])
    /\ IsSpace(RawCategory[Len(RawCategory)])
    /\ decision["branch"] = "group4"
    /\ decision["action"] = "transfer_to_group4"

\* C9: an input that is not stopped and whose confidence is in [0.30, 0.50)
\* gets confidence_warning = LOW and requires_confirmation = True, no
\* requires_manual_review, and the base message followed by the bracketed
\* low-confidence suffix.
C9_LowConfidenceOverlay ==
    (Handled /\ ~Stopped /\ InputConfidence >= 300 /\ InputConfidence < 500)
    => /\ "confidence_warning" \in DOMAIN decision
       /\ decision["confidence_warning"] = "LOW"
       /\ "requires_confirmation" \in DOMAIN decision
       /\ decision["requires_confirmation"] = TRUE
       /\ "requires_manual_review" \notin DOMAIN decision
       /\ decision["message"] =
             BaseMessage \o <<" [Low confidence (">> \o
             FormatPercent(InputConfidence) \o
             <<") - please confirm before proceeding]">>

\* An urgent category handled at exactly 0.30.
C9_Witness ==
    /\ Handled
    /\ InputCategory \in URGENT_CATEGORIES
    /\ InputConfidence = 300
    /\ decision["confidence_warning"] = "LOW"

\* C10: at a confidence of 0.50 or more the decision has none of warning,
\* confidence_warning, requires_confirmation and requires_manual_review, and
\* its message is the base routing message; 'Mental health' at 0.95 is ours,
\* on branch group3, with care level MODERATE.
C10_NoWarningFromHalf ==
    (Handled /\ InputConfidence >= 500)
    => /\ DOMAIN decision \cap WarningKeys = {}
       /\ decision["message"] = BaseMessage
       /\ (InputCategory = <<"Mental health">> /\ InputConfidence = 950)
          => /\ is_ours = TRUE
             /\ decision["branch"] = "group3"
             /\ decision["care_level"] = "MODERATE"

\* 'Mental health' handled at 0.95.
C10_Witness ==
    /\ Handled
    /\ InputCategory = <<"Mental health">>
    /\ InputConfidence = 950
    /\ decision["branch"] = "group3"

-----------------------------------------------------------------------------
(* What the properties of the validator read off a state *)

\* The facilities of the list that carry a validation record.
Validated == { i \in DOMAIN facilities : "validation" \in DOMAIN facilities[i] }

\* Some validator call has returned.
Called == vcall /= "none"

\* The confidence tiers, and their rank from the least to the most trusted.
Tiers == {"unknown", "low", "medium", "high"}

TierRank(tier) ==
    CASE tier = "unknown" -> 0
      [] tier = "low"     -> 1
      [] tier = "medium"  -> 2
      [] tier = "high"    -> 3

\* The completeness values from 0 to 1, in thirtieths.
CompletenessValues == 0..30

-----------------------------------------------------------------------------
(* C11 .. C20 *)

\* C11: for every facility of the list, _calculate_reliability does not
\* decrease when the completeness grows from or up to the facility's own at a
\* fixed tier, whatever the tier, nor when the tier rises in the order
\* unknown, low, medium, high at the facility's completeness.
C11_ReliabilityMonotone ==
    \A i \in DOMAIN facilities :
        LET f == facilities[i]
            c == _check_data_completeness(f)
        IN  /\ \A tier \in Tiers : \A c2 \in CompletenessValues :
                  /\ c <= c2 => _calculate_reliability(f, tier, c)
                                 <= _calculate_reliability(f, tier, c2)
                  /\ c2 <= c => _calculate_reliability(f, tier, c2)
                                 <= _calculate_reliability(f, tier, c)
            /\ \A t1, t2 \in Tiers :
                  TierRank(t1) <= TierRank(t2)
                  => _calculate_reliability(f, t1, c)
                     <= _calculate_reliability(f, t2, c)

\* Two validated facilities of one list, the one of the lower tier no more
\* complete than the other and with the strictly lower reliability score.
C11_Witness ==
    /\ Called
    /\ \E i, j \in Validated :
          LET v == facilities[i]["validation"]
              w == facilities[j]["validation"]
          IN  /\ _check_data_completeness(facilities[i])
                 <= _check_data_completeness(facilities[j])
              /\ TierRank(v.confidence_level) < TierRank(w.confidence_level)
              /\ v.reliability_score < w.reliability_score

\* C12: the reliability_score that validate_facility attaches is
\* 100 * (w * 0.6 + completeness * 0.3 + 0.1), w being 1.0, 0.7, 0.4, 0.3 for
\* the tier high, medium, low, unknown of the same record; it lies in
\* [0, 100] and is never 0.
C12_ReliabilityFormula ==
    \A i \in Validated :
        LET validation == facilities[i]["validation"]
            tier == validation.confidence_level
            w == CASE tier = "high"    -> 10
                   [] tier = "medium"  -> 7
                   [] tier = "low"     -> 4
                   [] tier = "unknown" -> 3
        IN  /\ tier \in Tiers
            /\ validation.reliability_score
               = w * 6 + _check_data_completeness(facilities[i]) + 10
            /\ validation.reliability_score \in 1..100

\* A validated facility of the high tier with all six contact fields: its
\* score is the top of the range.
C12_Witness ==
    /\ Called
    /\ \E i \in Validated :
          /\ facilities[i]["validation"].confidence_level = "high"
          /\ _check_data_completeness(facilities[i]) = 30
          /\ facilities[i]["validation"].reliability_score = 100

\* C13: after validate_facility, validate_results, get_high_confidence_facilities
\* or add_validation_badges every facility keeps each key it had, other than
\* 'validation' and 'badges', with the value it had; the only keys added or
\* written are 'validation' and, by add_validation_badges alone, 'badges';
\* and the dicts returned are dicts of the list.
C13_PureAugmentation ==
    Called =>
    /\ DOMAIN facilities = DOMAIN prev
    /\ \A i \in DOMAIN facilities :
          LET before == prev[i]
              after == facilities[i]
          IN  /\ \A k \in DOMAIN before \ {"validation", "badges"} :
                    k \in DOMAIN after /\ after[k] = before[k]
              /\ DOMAIN after \ DOMAIN before \subseteq {"validation", "badges"}
              /\ vcall /= "add_validation_badges"
                 => /\ "badges" \in DOMAIN after <=> "badges" \in DOMAIN before
                    /\ "badges" \in DOMAIN before
                       => after["badges"] = before["badges"]
    /\ \A j \in DOMAIN returned :
          \E i \in DOMAIN facilities : returned[j] = facilities[i]

\* add_validation_badges has added both 'validation' and 'badges' to a
\* facility that had a name, a score and a source, and neither of the two.
C13_Witness ==
    /\ vcall = "add_validation_badges"
    /\ \E i \in DOMAIN facilities :
          /\ {"name", "score", "source"} \subseteq DOMAIN prev[i]
          /\ DOMAIN prev[i] \cap {"validation", "badges"} = {}
          /\ {"validation", "badges"} \subseteq DOMAIN facilities[i]
          /\ facilities[i]["source"] = prev[i]["source"]

\* The five similarity keys, and those a facility has.
SimilarityKeys ==
    {"affordability_similarity", "crisis_care_similarity",
     "accessibility_similarity", "specialization_similarity",
     "community_integration_similarity"}

SimilaritiesOf(f) == SimilarityKeys \cap DOMAIN f

\* The sum of the similarities a facility has, in hundredths.
SimilarityTotal(f) ==
    LET sim(key) == IF key \in DOMAIN f THEN f[key] ELSE 0
    IN  sim("affordability_similarity") + sim("crisis_care_similarity")
        + sim("accessibility_similarity") + sim("specialization_similarity")
        + sim("community_integration_similarity")

NoValueTexts(field) ==
    { <<>>, <<" ">>, <<"nan">>, <<"NaN">> }
    \cup IF field \in {"address", "phone", "zip"}
         THEN { <<"Address not available">>, <<"address not available">>,
                <<"Phone not available">>, <<"phone not available">> }
         ELSE {}

\* The fields among `fields` that a facility has a value for.
PresentFields(f, fields) ==
    { field \in fields \cap DOMAIN f : f[field] \notin NoValueTexts(field) }

\* The validation of a facility has the 'Incomplete data' warning.
HasIncompleteWarning(f) ==
    \E k \in DOMAIN f["validation"].warnings :
        Head(f["validation"].warnings[k]) = "Incomplete data ("

\* C15: the completeness of a validated facility is
\* 0.8 * (present among name, city, state) / 3
\* + 0.2 * (present among address, phone, zip) / 3 (in thirtieths: 8 and 2 per
\* field), it lies in [0, 1], and the validation has the 'Incomplete data'
\* warning exactly when it is below 0.5; with name, city and state present
\* and no other field it is 0.8 and there is no such warning.
C15_Completeness ==
    \A i \in Validated :
        LET f == facilities[i]
            required == Cardinality(PresentFields(f, {"name", "city", "state"}))
            optional == Cardinality(PresentFields(f, {"address", "phone", "zip"}))
            completeness == 8 * required + 2 * optional
        IN  /\ _check_data_completeness(f) = completeness
            /\ completeness \in 0..30
            /\ HasIncompleteWarning(f) <=> completeness < 15
            /\ (required = 3 /\ optional = 0)
               => completeness = 24 /\ ~HasIncompleteWarning(f)

\* A validated facility with a name, a 'nan' or blank city and no state:
\* one required field present, and the warning.
C15_Witness ==
    /\ Called
    /\ \E i \in Validated :
          /\ "city" \in DOMAIN facilities[i]
          /\ facilities[i]["city"] \in { <<" ">>, <<"NaN">> }
          /\ PresentFields(facilities[i], {"name", "city", "state"}) = {"name"}
          /\ HasIncompleteWarning(facilities[i])

\* The validation of a facility has a warning that begins with `text`.
HasWarning(f, text) ==
    \E k \in DOMAIN f["validation"].warnings :
        Head(f["validation"].warnings[k]) = text

\* The five dimension score keys, and those a facility has.
DimensionScoreKeys ==
    {"affordability_score", "crisis_care_score", "accessibility_score",
     "specialization_score", "community_integration_score"}

DimensionScoresOf(f) == DimensionScoreKeys \cap DOMAIN f

\* The standard deviation of the dimension scores a facility has exceeds
\* 2.0: with n scores x in tenths, n * sum(x^2) - sum(x)^2 > 4.00 * 100 * n^2.
DeviationAboveTwo(f) ==
    LET x(key) == IF key \in DOMAIN f THEN f[key] ELSE 0
        n == Cardinality(DimensionScoresOf(f))
        sum == x("affordability_score") + x("crisis_care_score")
               + x("accessibility_score") + x("specialization_score")
               + x("community_integration_score")
        squares == x("affordability_score") * x("affordability_score")
                   + x("crisis_care_score") * x("crisis_care_score")
                   + x("accessibility_score") * x("accessibility_score")
                   + x("specialization_score") * x("specialization_score")
                   + x("community_integration_score")
                     * x("community_integration_score")
    IN  n > 0 /\ n * squares - sum * sum > 400 * n * n

\* C16 (as claimed): a validated facility has the 'abnormally high' warning
\* exactly when it has a score of 9.5 or more, the 'abnormally low' warning
\* exactly when it has a score of 2.0 or less, and the 'high variance'
\* warning exactly when the standard deviation of the dimension scores it
\* has exceeds 2.0, each whatever the other two.
C16_ScoreAnomalies ==
    \A i \in Validated :
        LET f == facilities[i]
        IN  /\ HasWarning(f, "Abnormally high score (")
               <=> ("score" \in DOMAIN f /\ f["score"] >= 95)
            /\ HasWarning(f, "Abnormally low score (")
               <=> ("score" \in DOMAIN f /\ f["score"] <= 20)
            /\ HasWarning(f, "High score variance (std dev=")
               <=> DeviationAboveTwo(f)

\* C17 (as claimed): a validated facility that has no 'score' and none of the
\* five similarities has the confidence level 'unknown' and no warning.
C17_NoSignalIsUnknown ==
    \A i \in Validated :
        LET f == facilities[i]
        IN  ("score" \notin DOMAIN f /\ SimilaritiesOf(f) = {})
            => /\ f["validation"].confidence_level = "unknown"
               /\ f["validation"].warnings = <<>>

\* The actions of the four routing branches.
RoutingActions ==
    {"proceed_to_group3", "transfer_to_group4", "return_to_previous_step",
     "ask_for_clarification"}

\* C18 (as claimed): the decision of handle_group2_input has the action
\* stop_execution, and equivalently the branch no_care_needed, exactly when
\* the category is of the LOW tier and the confidence is present and below
\* 0.50; in every other case is_ours is (branch = group3) and the action is
\* one of the four routing actions.
C18_StopIsTheOnlyHalt ==
    Handled =>
    LET low == /\ InputCategory \in LOW_PRIORITY_CATEGORIES
               /\ InputConfidence /= None
               /\ InputConfidence < 500
    IN  /\ decision["action"] = "stop_execution"
           <=> decision["branch"] = "no_care_needed"
        /\ decision["action"] = "stop_execution" <=> low
        /\ ~low => /\ is_ours = (decision["branch"] = "group3")
                   /\ decision["action"] \in RoutingActions

\* The decision of the plain routing of the input, before the care level
\* and the confidence checks of handle_group2_input.
BaseDecision == process_group2_output(group2_output)

\* C19: for an input that is not stopped, the branch, action, category and
\* confidence of the decision of handle_group2_input are those of the base
\* decision of process_group2_output and of route_category, its care level
\* is the tier of the category, and is_ours is (base branch = group3); every
\* other field of the base decision but 'warning' and 'message' is kept, the
\* fields added are the care level, confidence_warning, warning and the
\* requires_ flags, and the message begins with the base message.
C19_OverlayIsAdditive ==
    (Handled /\ ~Stopped) =>
    LET base == BaseDecision
        routed == route_category(RawCategory, InputConfidence)
    IN  /\ \A k \in {"branch", "action", "category", "confidence"} :
              decision[k] = base[k] /\ decision[k] = routed[k]
        /\ decision["care_level"] =
              IF InputCategory \in URGENT_CATEGORIES THEN "URGENT"
              ELSE IF InputCategory \in MODERATE_CATEGORIES THEN "MODERATE"
              ELSE IF InputCategory \in LOW_PRIORITY_CATEGORIES THEN "LOW"
              ELSE NoCareLevel
        /\ is_ours = (base["branch"] = "group3")
        /\ \A k \in DOMAIN base \ {"warning", "message"} :
              k \in DOMAIN decision /\ decision[k] = base[k]
        /\ DOMAIN decision \ DOMAIN base \subseteq WarningKeys \cup {"care_level"}
        /\ Len(decision["message"]) >= Len(base["message"])
        /\ SubSeq(decision["message"], 1, Len(base["message"])) = base["message"]

\* A category of the MODERATE tier handled at a confidence below 0.30: the
\* warning is rewritten and the message extended, on the branch and with
\* the action of the base decision.
C19_Witness ==
    /\ Handled
    /\ ~Stopped
    /\ InputCategory \in MODERATE_CATEGORIES
    /\ InputConfidence \in 1..299
    /\ decision["confidence_warning"] = "CRITICAL"
    /\ decision["warning"] /= BaseDecision["warning"]
    /\ decision["message"] /= BaseDecision["message"]
    /\ decision["action"] = BaseDecision["action"]

\* A facility without the fields the validator writes.
Unvalidated(f) == [k \in DOMAIN f \ {"validation", "badges"} |-> f[k]]

\* C20: a call that validates again a facility that already had a
\* validation record leaves it with an equal record; the record of every
\* validated facility is the one validate_facility gives the facility taken
\* without any earlier record, and no warning is in it twice.
C20_RevalidationSupersedes ==
    Called =>
    \A i \in Validated :
        LET f == facilities[i]
            warnings == f["validation"].warnings
        IN  /\ "validation" \in DOMAIN prev[i]
               => f["validation"] = prev[i]["validation"]
            /\ f["validation"] = validate_facility(Unvalidated(f))["validation"]
            /\ \A k, m \in DOMAIN warnings : warnings[k] = warnings[m] => k = m

\* add_validation_badges or get_high_confidence_facilities called on a
\* facility that had a validation record with a warning.
C20_Witness ==
    /\ vcall \in {"add_validation_badges", "get_high_confidence_facilities"}
    /\ \E i \in Validated :
          /\ "validation" \in DOMAIN prev[i]
          /\ prev[i]["validation"].warnings /= <<>>
          /\ facilities[i]["validation"] = prev[i]["validation"]

-----------------------------------------------------------------------------
(* C21 .. C22 *)

\* C21: in every decision of handle_group2_input requires_manual_review is
\* present exactly when confidence_warning is CRITICAL, requires_confirmation
\* exactly when it is LOW, the two flags are never both present, and a stop
\* decision (no_care_needed) has none of confidence_warning,
\* requires_manual_review, requires_confirmation and warning.
C21_ReviewFlagsExclusive ==
    Handled =>
    LET level == Get(decision, "confidence_warning", "")
    IN  /\ "requires_manual_review" \in DOMAIN decision <=> level = "CRITICAL"
        /\ "requires_confirmation" \in DOMAIN decision <=> level = "LOW"
        /\ ~ {"requires_manual_review", "requires_confirmation"}
                \subseteq DOMAIN decision
        /\ "confidence_warning" \in DOMAIN decision
           => level \in {"CRITICAL", "LOW"}
        /\ decision["branch"] = "no_care_needed"
           => DOMAIN decision \cap WarningKeys = {}

\* A stop decision at a confidence for which the plain routing would warn.
C21_Witness ==
    /\ Handled
    /\ decision["branch"] = "no_care_needed"
    /\ InputConfidence \in 1..499
    /\ "warning" \in DOMAIN BaseDecision
    /\ DOMAIN decision \cap WarningKeys = {}

\* The facilities of the list that carry badges.
Badged == { i \in DOMAIN facilities : "badges" \in DOMAIN facilities[i] }

HasBadge(f, badge) == \E k \in DOMAIN f["badges"] : f["badges"][k] = badge

\* C22: every facility with badges that has HIGH CONFIDENCE has VERIFIED,
\* the high tier giving a reliability of 70 or more at every completeness
\* from 0 to 1; one with a score of 9.5 or more and no similarity has both
\* badges and the 'abnormally high' warning, and not NO WARNINGS.
C22_HighConfidenceIsVerified ==
    \A i \in Badged :
        LET f == facilities[i]
        IN  /\ HasBadge(f, "HIGH CONFIDENCE") => HasBadge(f, "VERIFIED")
            /\ f["validation"].confidence_level = "high"
               => f["validation"].reliability_score >= 70
            /\ \A c \in CompletenessValues :
                  _calculate_reliability(f, "high", c) >= 70
            /\ ("score" \in DOMAIN f /\ f["score"] >= 95 /\ SimilaritiesOf(f) = {})
               => /\ HasBadge(f, "HIGH CONFIDENCE")
                  /\ HasBadge(f, "VERIFIED")
                  /\ HasWarning(f, "Abnormally high score (")
                  /\ ~HasBadge(f, "NO WARNINGS")

\* add_validation_badges has returned a facility with a score of 9.5 or
\* more and no similarity: it has both badges and the warning.
C22_Witness ==
    /\ vcall = "add_validation_badges"
    /\ \E i \in Badged :
          LET f == facilities[i]
          IN  /\ "score" \in DOMAIN f
              /\ f["score"] >= 95
              /\ SimilaritiesOf(f) = {}
              /\ HasBadge(f, "HIGH CONFIDENCE")
              /\ HasBadge(f, "VERIFIED")
              /\ HasWarning(f, "Abnormally high score (")

=============================================================================
